---- MODULE Spec2Model ----
(***************************************************************************)
(* A model of the JetStream and Speedometer workloads of                   *)
(* workload-automation: the completion poller                              *)
(* (Jetstream.wait_for_benchmark_to_complete), the score extractor         *)
(* (Jetstream.update_output), the content server (ArchiveServer) and the   *)
(* workload lifecycle around them.                                         *)
(*                                                                         *)
(* Strings the code builds and inspects (command outputs) are sequences of *)
(* tokens, so that split("\n") and the `in` substring test are computed as *)
(* the code computes them.                                                 *)
(***************************************************************************)
EXTENDS Integers, Sequences, FiniteSets, TLC

\* ------------------------------------------------------------ constants

\* wait_for_benchmark_to_complete's periods
sleep_period_s == 5
find_period_s == 30
timeout_period_m == 15

\* number of *.log files the device may hold under Local Storage/leveldb
NumLogFiles == 2

\* the identifiers uuid4().hex may hand to a run
RunIds == {"idA", "idB"}

PathNames == <<"1.log", "2.log", "3.log", "4.log">>
LogFiles == {PathNames[i] : i \in 1..NumLogFiles}

\* what a log file may hold: no identifier, or the identifier one run wrote
Contents == {<<>>} \cup {<<id>> : id \in RunIds}

\* how the device's grep reports a match in a binary file
GrepStyles == {"text", "binary"}

\* ------------------------------------------------------------ state

VARIABLES
    \* the device
    dir_exists,        \* the Local Storage/leveldb directory exists
    log_files,         \* present *.log file -> its content
    grep_style,        \* the reporting form of the device's grep
    \* Jetstream.run / wait_for_benchmark_to_complete
    report_end_id,
    iterations,
    local_storage_seen,
    benchmark_complete,
    candidate_bound,   \* candidate_files has been assigned
    candidate_files,
    pc,
    \* history of the call
    slept,             \* number of time.sleep(sleep_period_s) calls
    poll_steps,        \* number of steps the call has taken
    ever_existed,      \* file_exists returned true in some iteration
    find_ran,          \* the find command ran in the latest iteration
    last_outputs,      \* the grep outputs of the latest iteration, in order
    marker_age         \* watched file -> iterations it has held the identifier

pollVars == <<dir_exists, log_files, grep_style, report_end_id, iterations,
              local_storage_seen, benchmark_complete, candidate_bound,
              candidate_files, pc, slept, poll_steps, ever_existed,
              find_ran, last_outputs, marker_age>>

VARIABLES
    \* the workload and its device
    workload,          \* "jetstream" or "speedometer"
    is_rooted,         \* target.is_rooted
    cleanup_assets,    \* the workload's cleanup_assets parameter
    lc_pc,             \* where the lifecycle stands
    failed_phase,      \* the phase before teardown that raised, or "none"
    td_exc,            \* what teardown raised, or "none"
    fin_exc,           \* what finalize raised, or "none"
    has_ui_dump_loc,   \* self.ui_dump_loc has been assigned
    \* ArchiveServer
    has_httpd,         \* self._httpd has been assigned
    srv_port,          \* self._port (NoPort: None)
    bound_port,        \* the port the server's socket is bound to (NoPort: none)
    thread,            \* "unstarted", "serving", "loop_exited" or "dead"
    shutdown_request,  \* shutdown() has asked serve_forever to exit
    joined,            \* _thread.join() has returned
    mapped_port,       \* the port adb reverse maps (NoPort: no mapping)
    mapped_device,     \* the device's side of that mapping (NoPort: no mapping)
    unmap_failed,      \* the adb reverse --remove command failed
    \* Jetstream.update_output
    uo_iterations,
    score_read,
    attempts,          \* calls of read_score
    score_at,          \* the attempt that returned a score (0: none)
    uo_slept,          \* time.sleep(2) calls
    metrics,           \* calls of context.add_metric
    metric_values      \* the values handed to context.add_metric, in order

serverVars == <<has_httpd, srv_port, bound_port, thread, shutdown_request,
                joined, mapped_port, mapped_device, unmap_failed>>

scoreVars == <<uo_iterations, score_read, attempts, score_at, uo_slept, metrics,
               metric_values>>

lifeVars == <<workload, is_rooted, cleanup_assets, lc_pc, failed_phase, td_exc,
              fin_exc, has_ui_dump_loc, serverVars, scoreVars>>

VARIABLES
    \* Speedometer.run
    sp_pc,             \* where the call stands
    countdown,
    busiest_line,      \* the first line of the latest output of top
    waited,            \* seconds slept by time.sleep(60)
    since_sample,      \* seconds slept since the latest sample
    recent,            \* the latest samples: busy or not, seconds since the one before
    busy_seen          \* some sample of the call found sandboxed_process the busiest

topVars == <<sp_pc, countdown, busiest_line, waited, since_sample, recent,
             busy_seen>>

VARIABLES
    \* DifferentDirectoryHTTPRequestHandler.translate_path
    tp_pc,             \* "idle", "called" or "returned"
    document_root,     \* self.server.document_root
    cwd,               \* os.getcwd()
    request,           \* the path of the request
    tp_result          \* what translate_path returned

pathVars == <<tp_pc, document_root, cwd, request, tp_result>>

auxVars == <<topVars, pathVars>>

vars == <<pollVars, lifeVars, auxVars>>

\* Speedometer.run and translate_path while they are not looked at
AuxIdle ==
    /\ sp_pc = "not_called" /\ countdown = 0 /\ busiest_line = <<>>
    /\ waited = 0 /\ since_sample = 0 /\ recent = <<>> /\ busy_seen = FALSE
    /\ tp_pc = "idle" /\ document_root = <<>> /\ cwd = <<>>
    /\ request = <<>> /\ tp_result = <<>>

\* ------------------------------------------------------------ strings

Min(a, b) == IF a < b THEN a ELSE b

\* needle in hay
Contains(hay, needle) ==
    \E i \in 0..(Len(hay) - Len(needle)) :
        SubSeq(hay, i + 1, i + Len(needle)) = needle

\* s.split(sep), on tokens: the fields between the separators
RECURSIVE SplitFrom(_, _, _, _)
SplitFrom(s, sep, cur, acc) ==
    IF s = <<>> THEN Append(acc, cur)
    ELSE IF Head(s) = sep THEN SplitFrom(Tail(s), sep, <<>>, Append(acc, cur))
    ELSE SplitFrom(Tail(s), sep, Append(cur, Head(s)), acc)

Split(s, sep) == SplitFrom(s, sep, <<>>, <<>>)

\* a field of one token is that path; the empty field is the empty string
FieldPath(field) == IF field = <<>> THEN "" ELSE field[1]

\* ------------------------------------------------------------ device

\* busybox find "<local_storage>" -iname "*.log": one line per file
RECURSIVE FindOutputFrom(_, _)
FindOutputFrom(i, files) ==
    IF i > NumLogFiles THEN <<>>
    ELSE (IF PathNames[i] \in DOMAIN files THEN <<PathNames[i], "\n">> ELSE <<>>)
         \o FindOutputFrom(i + 1, files)

FindOutput(files) == FindOutputFrom(1, files)

HasId(files, path, id) ==
    /\ path \in DOMAIN files
    /\ Contains(files[path], <<id>>)

\* busybox grep <id> "<path>" on the device
GrepOutput(files, style, id, path) ==
    IF path \notin DOMAIN files
        THEN <<"grep: ", path, ": No such file or directory">>
    ELSE IF ~Contains(files[path], <<id>>) THEN <<>>
    ELSE IF style = "text" THEN <<"[KEY]">> \o files[path]
    ELSE <<"Binary file ", path, " matches">>

\* ------------------------------------------------------------ poller

\* the iteration at which the find is repeated
FindEvery == find_period_s \div sleep_period_s

\* the iteration budget
TimeoutIterations == (timeout_period_m * 60) \div sleep_period_s

\* a find in every iteration
NeedFindAlways(iters, seen) == TRUE

\* a find on the period only
NeedFindOnPeriod(iters, seen) == iters % FindEvery = 0

\* "iterations % (find_period_s // sleep_period_s) == 0 or not local_storage_seen"
NeedFind(iters, seen) == iters % FindEvery = 0 \/ ~seen

\* grep_cmd: the pattern and the file handed to grep
GrepCmd(id, ls_file) == [pattern |-> id, file |-> ls_file]

\* the literal the code looks for; its {} is never filled in
BinaryTemplate == <<"Binary file ", "{}", " matches">>

\* a test that takes any output of grep for a match ("if output:")
MatchAnyOutput(output, id) == output # <<>>

\* "'Binary file {} matches' in output or report_end_id in output"
MatchSignalled(output, id) ==
    Contains(output, BinaryTemplate) \/ Contains(output, <<id>>)

\* candidate_files = execute(find_cmd).split("\n")
Candidates(files) ==
    LET fields == Split(FindOutput(files), "\n")
    IN  [i \in 1..Len(fields) |-> FieldPath(fields[i])]

\* the for loop over candidate_files: the outputs of the greps it runs, up
\* to and including the one that breaks out of it
RECURSIVE ScanFrom(_, _, _, _, _)
ScanFrom(cands, i, files, style, id) ==
    IF i > Len(cands) THEN <<>>
    ELSE LET cmd == GrepCmd(id, cands[i])
             output == GrepOutput(files, style, cmd.pattern, cmd.file)
         IN  IF MatchSignalled(output, id) THEN <<output>>
             ELSE <<output>> \o ScanFrom(cands, i + 1, files, style, id)

\* a budget counted in seconds, not in sleeps
TimedOutInSeconds(iters) == iters > timeout_period_m * 60

\* "iterations > ((timeout_period_m * 60) // sleep_period_s)"
TimedOut(iters) == iters > TimeoutIterations

\* the two messages the wrong way round
TimeoutErrorSwapped(seen) == IF seen THEN "raised_not_found" ELSE "raised_timeout"

\* which WorkloadError the timeout raises
TimeoutError(seen) == IF ~seen THEN "raised_not_found" ELSE "raised_timeout"

\* the two timeout WorkloadErrors
PollRaised == {"raised_not_found", "raised_timeout"}

PollTerminal == {"returned", "raised_unbound"} \cup PollRaised

AgeCap == FindEvery + 2

\* the identifier has been in the file, under an existing directory
HoldsMarker(exists, files, f, id) == exists /\ HasId(files, f, id)

\* a change of the device ends the age of a marker it removes
KeptAge(exists, files) ==
    [f \in DOMAIN marker_age |->
        IF HoldsMarker(exists, files, f, report_end_id) THEN marker_age[f] ELSE 0]

InitDevice ==
    /\ dir_exists \in BOOLEAN
    /\ log_files \in UNION {[S -> Contents] : S \in SUBSET LogFiles}
    /\ (~dir_exists => log_files = <<>>)
    /\ grep_style \in GrepStyles

\* Jetstream.run up to the call of wait_for_benchmark_to_complete, and the
\* call's first lines
InitCall ==
    /\ InitDevice
    /\ report_end_id \in RunIds
    /\ iterations = 0
    /\ local_storage_seen = FALSE
    /\ benchmark_complete = FALSE
    /\ candidate_bound = FALSE
    /\ candidate_files = <<>>
    /\ pc = "loop"
    /\ slept = 0
    /\ poll_steps = 0
    /\ ever_existed = FALSE
    /\ find_ran = FALSE
    /\ last_outputs = <<>>

\* _port = None
NoPort == 0

\* the ports the system may assign to HTTPServer(("", 0))
Ports == {9222, 9223}

\* the lifecycle while only the poller is looked at: Jetstream.run is under way
LifeInRun ==
    /\ workload = "jetstream"
    /\ is_rooted = TRUE
    /\ cleanup_assets = TRUE
    /\ lc_pc = "run"
    /\ failed_phase = "none" /\ td_exc = "none" /\ fin_exc = "none"
    /\ has_ui_dump_loc = FALSE
    /\ has_httpd = TRUE
    /\ srv_port = CHOOSE p \in Ports : TRUE
    /\ bound_port = srv_port /\ mapped_port = srv_port /\ mapped_device = srv_port
    /\ thread = "serving" /\ shutdown_request = FALSE /\ joined = FALSE
    /\ unmap_failed = FALSE
    /\ uo_iterations = 0 /\ score_read = FALSE /\ attempts = 0
    /\ score_at = 0 /\ uo_slept = 0 /\ metrics = 0 /\ metric_values = <<>>

\* no file's marker age is recorded
InitPoll == InitCall /\ marker_age = <<>> /\ LifeInRun /\ AuxIdle

\* every file's marker age is recorded
InitAged ==
    InitCall /\ marker_age = [f \in LogFiles |-> 0] /\ LifeInRun /\ AuxIdle

pollCode == <<iterations, local_storage_seen, benchmark_complete,
              candidate_bound, candidate_files, pc, slept, poll_steps,
              ever_existed, find_ran, last_outputs, report_end_id, grep_style>>

\* the device between two iterations: the browser creates the directory
CreateDir ==
    /\ pc = "loop" /\ ~benchmark_complete
    /\ ~dir_exists
    /\ dir_exists' = TRUE
    /\ UNCHANGED <<log_files, marker_age, pollCode>>
    /\ UNCHANGED <<lifeVars, auxVars>>

\* ... the directory is removed, with what it holds
RemoveDir ==
    /\ pc = "loop" /\ ~benchmark_complete
    /\ dir_exists
    /\ dir_exists' = FALSE
    /\ log_files' = <<>>
    /\ marker_age' = KeptAge(FALSE, <<>>)
    /\ UNCHANGED pollCode
    /\ UNCHANGED <<lifeVars, auxVars>>

\* ... a log file is created or rewritten
WriteLog ==
    /\ pc = "loop" /\ ~benchmark_complete
    /\ dir_exists
    /\ \E f \in LogFiles, c \in Contents :
        /\ f \in DOMAIN log_files => log_files[f] # c
        /\ log_files' = [g \in DOMAIN log_files \cup {f} |->
                            IF g = f THEN c ELSE log_files[g]]
        /\ marker_age' = KeptAge(TRUE, log_files')
    /\ UNCHANGED <<dir_exists, pollCode>>
    /\ UNCHANGED <<lifeVars, auxVars>>

\* ... a log file is deleted
DeleteLog ==
    /\ pc = "loop" /\ ~benchmark_complete
    /\ \E f \in DOMAIN log_files :
        /\ log_files' = [g \in DOMAIN log_files \ {f} |-> log_files[g]]
        /\ marker_age' = KeptAge(dir_exists, log_files')
    /\ UNCHANGED <<dir_exists, pollCode>>
    /\ UNCHANGED <<lifeVars, auxVars>>

\* one pass of the while body, up to "iterations += 1"
PollBody ==
    /\ pc = "loop" /\ ~benchmark_complete
    /\ LET exists == dir_exists
           find == exists /\ NeedFind(iterations, local_storage_seen)
           cands == IF find THEN Candidates(log_files) ELSE candidate_files
           unbound == exists /\ ~find /\ ~candidate_bound
           outputs == IF exists /\ ~unbound
                         THEN ScanFrom(cands, 1, log_files, grep_style, report_end_id)
                         ELSE <<>>
       IN  /\ candidate_files' = cands
           /\ candidate_bound' = (candidate_bound \/ find)
           /\ find_ran' = find
           /\ local_storage_seen' = (local_storage_seen \/ exists)
           /\ ever_existed' = (ever_existed \/ exists)
           /\ last_outputs' = outputs
           /\ benchmark_complete' =
                 (outputs # <<>> /\ MatchSignalled(outputs[Len(outputs)], report_end_id))
           /\ IF unbound
                 THEN pc' = "raised_unbound" /\ iterations' = iterations
                 ELSE pc' = "check" /\ iterations' = iterations + 1
    /\ marker_age' = [f \in DOMAIN marker_age |->
            IF HoldsMarker(dir_exists, log_files, f, report_end_id)
                THEN Min(marker_age[f] + 1, AgeCap) ELSE 0]
    /\ poll_steps' = poll_steps + 1
    /\ UNCHANGED <<dir_exists, log_files, grep_style, report_end_id, slept>>
    /\ UNCHANGED <<lifeVars, auxVars>>

\* the timeout test after the increment
TimeoutCheck ==
    /\ pc = "check"
    /\ pc' = IF TimedOut(iterations) THEN TimeoutError(local_storage_seen) ELSE "sleep"
    /\ poll_steps' = poll_steps + 1
    /\ UNCHANGED <<dir_exists, log_files, grep_style, report_end_id, iterations,
                   local_storage_seen, benchmark_complete, candidate_bound,
                   candidate_files, slept, ever_existed, find_ran, last_outputs,
                   marker_age>>
    /\ UNCHANGED <<lifeVars, auxVars>>

\* time.sleep(sleep_period_s)
Sleep ==
    /\ pc = "sleep"
    /\ pc' = "loop"
    /\ slept' = slept + 1
    /\ poll_steps' = poll_steps + 1
    /\ find_ran' = FALSE
    /\ last_outputs' = <<>>
    /\ UNCHANGED <<dir_exists, log_files, grep_style, report_end_id, iterations,
                   local_storage_seen, benchmark_complete, candidate_bound,
                   candidate_files, ever_existed, marker_age>>
    /\ UNCHANGED <<lifeVars, auxVars>>

\* the while test fails: the call returns
PollReturn ==
    /\ pc = "loop" /\ benchmark_complete
    /\ pc' = "returned"
    /\ poll_steps' = poll_steps + 1
    /\ UNCHANGED <<dir_exists, log_files, grep_style, report_end_id, iterations,
                   local_storage_seen, benchmark_complete, candidate_bound,
                   candidate_files, slept, ever_existed, find_ran, last_outputs,
                   marker_age>>
    /\ UNCHANGED <<lifeVars, auxVars>>

DeviceStep == CreateDir \/ RemoveDir \/ WriteLog \/ DeleteLog

PollStep == PollBody \/ TimeoutCheck \/ Sleep \/ PollReturn

Next == DeviceStep \/ PollStep

Spec == InitPoll /\ [][Next]_vars

AgeSpec == InitAged /\ [][Next]_vars

\* ------------------------------------------------------------ lifecycle

\* the poller while only the lifecycle is looked at: not called yet
PollNotCalled ==
    /\ dir_exists = FALSE /\ log_files = <<>> /\ grep_style = "text"
    /\ report_end_id = "idA"
    /\ iterations = 0 /\ local_storage_seen = FALSE /\ benchmark_complete = FALSE
    /\ candidate_bound = FALSE /\ candidate_files = <<>>
    /\ pc = "not_called"
    /\ slept = 0 /\ poll_steps = 0 /\ ever_existed = FALSE /\ find_ran = FALSE
    /\ last_outputs = <<>> /\ marker_age = <<>>

\* 'adb reverse tcp:8000 tcp:8000'
SpeedometerPort == 8000

\* "if iterations >= 10"
RetryLimit == 10

\* time.sleep(2)
RetryDelay == 2

\* the text the two regexes look for around the score
JsOpen == "node index=0 text="
JsClose == " resource-id="
SpOpen == "text="
SpClose == " resource-id=result-number"

\* texts matching \d+.\d+
Decimals == {"123.45"}

\* what uiautomator may dump: the page still rendering, or showing a score
Snapshots ==
    {<<"hierarchy">>,
     <<"hierarchy", JsOpen, "123.45", JsClose>>,
     <<"hierarchy", SpOpen, "123.45", SpClose>>}

\* regex.search(dump), then float(match.group(1)); <<>> is None
RegexScore(dump, open, close) ==
    LET hits == {i \in 1..(Len(dump) - 2) :
                    /\ dump[i] = open
                    /\ dump[i + 1] \in Decimals
                    /\ dump[i + 2] = close}
    IN  IF hits = {} THEN <<>>
        ELSE <<dump[(CHOOSE i \in hits : \A j \in hits : i <= j) + 1]>>

\* Jetstream.read_score on the dump it pulled
ReadScore(dump) == RegexScore(dump, JsOpen, JsClose)

\* a test no result fails ("if True")
IsNoneNever(result) == FALSE

\* "score is not None" / "result is not None", negated
IsNone(result) == result = <<>>

\* a limit that allows one retry more
RetriesExhaustedLate(iters) == iters > RetryLimit

\* "if iterations >= 10"
RetriesExhausted(iters) == iters >= RetryLimit

InitLife ==
    /\ PollNotCalled
    /\ AuxIdle
    /\ workload \in {"jetstream", "speedometer"}
    /\ is_rooted \in BOOLEAN
    /\ cleanup_assets \in BOOLEAN
    /\ lc_pc = IF workload = "jetstream" THEN "initialize" ELSE "setup"
    /\ failed_phase = "none" /\ td_exc = "none" /\ fin_exc = "none"
    /\ has_ui_dump_loc = FALSE
    /\ has_httpd = FALSE /\ srv_port = NoPort /\ bound_port = NoPort
    /\ thread = "unstarted" /\ shutdown_request = FALSE /\ joined = FALSE
    /\ mapped_port = NoPort /\ mapped_device = NoPort /\ unmap_failed = FALSE
    /\ uo_iterations = 0 /\ score_read = FALSE /\ attempts = 0
    /\ score_at = 0 /\ uo_slept = 0 /\ metrics = 0 /\ metric_values = <<>>

\* a phase before teardown raises: the framework goes on to teardown
Raise(phase) == failed_phase' = phase /\ lc_pc' = "teardown"

\* Jetstream.initialize, up to the start of the server
JsInitialize ==
    /\ workload = "jetstream" /\ lc_pc = "initialize"
    /\ IF ~is_rooted THEN Raise("initialize")
       ELSE lc_pc' = "start_bind" /\ UNCHANGED failed_phase
    /\ UNCHANGED <<workload, is_rooted, cleanup_assets, td_exc, fin_exc,
                   has_ui_dump_loc, serverVars, scoreVars, pollVars, auxVars>>

\* ArchiveServer.start: HTTPServer(("", 0), ...) binds a port; _port is read
StartBind ==
    /\ lc_pc = "start_bind"
    /\ \E p \in Ports :
        /\ has_httpd' = TRUE
        /\ bound_port' = p
        /\ srv_port' = p
    /\ lc_pc' = "start_thread"
    /\ UNCHANGED <<workload, is_rooted, cleanup_assets, failed_phase, td_exc,
                   fin_exc, has_ui_dump_loc, thread, shutdown_request, joined,
                   mapped_port, mapped_device, unmap_failed, scoreVars, pollVars, auxVars>>

\* "reverse tcp:{0} tcp:{0}".format(self._port): the device's port, the host's
ReverseArgs(port) == [device |-> port, host |-> port]

\* a start that creates the thread and does not start it
StartThreadNotStarted ==
    /\ lc_pc = "start_thread"
    /\ lc_pc' = "start_map"
    /\ UNCHANGED <<workload, is_rooted, cleanup_assets, failed_phase, td_exc,
                   fin_exc, has_ui_dump_loc, serverVars, scoreVars, pollVars,
                   auxVars>>

\* ArchiveServer.start: the thread is created and started
StartThread ==
    /\ lc_pc = "start_thread"
    /\ thread' = "serving"
    /\ lc_pc' = "start_map"
    /\ UNCHANGED <<workload, is_rooted, cleanup_assets, failed_phase, td_exc,
                   fin_exc, has_ui_dump_loc, has_httpd, srv_port, bound_port,
                   shutdown_request, joined, mapped_port, mapped_device, unmap_failed,
                   scoreVars, pollVars, auxVars>>

\* ArchiveServer.start: adb reverse tcp:{0} tcp:{0}; initialize goes on if it worked
StartMap ==
    /\ lc_pc = "start_map"
    /\ \E ok \in BOOLEAN :
        IF ok THEN /\ mapped_port' = ReverseArgs(srv_port).host
                   /\ mapped_device' = ReverseArgs(srv_port).device
                   /\ lc_pc' = "setup"
                   /\ UNCHANGED failed_phase
        ELSE Raise("initialize") /\ UNCHANGED <<mapped_port, mapped_device>>
    /\ UNCHANGED <<workload, is_rooted, cleanup_assets, td_exc, fin_exc,
                   has_ui_dump_loc, has_httpd, srv_port, bound_port, thread,
                   shutdown_request, joined, unmap_failed, scoreVars, pollVars, auxVars>>

\* Jetstream.setup: device commands, any of which may fail
JsSetup ==
    /\ workload = "jetstream" /\ lc_pc = "setup"
    /\ \E ok \in BOOLEAN :
        IF ok THEN lc_pc' = "run" /\ UNCHANGED failed_phase ELSE Raise("setup")
    /\ UNCHANGED <<workload, is_rooted, cleanup_assets, td_exc, fin_exc,
                   has_ui_dump_loc, serverVars, scoreVars, pollVars, auxVars>>

\* Jetstream.run: the launch, then the poller returns or raises a timeout
JsRun ==
    /\ workload = "jetstream" /\ lc_pc = "run"
    /\ \E outcome \in {"returned"} \cup PollRaised :
        IF outcome = "returned"
            THEN lc_pc' = "update_output" /\ UNCHANGED failed_phase
            ELSE Raise("run")
    /\ UNCHANGED <<workload, is_rooted, cleanup_assets, td_exc, fin_exc,
                   has_ui_dump_loc, serverVars, scoreVars, pollVars, auxVars>>

\* Jetstream.update_output, up to the loop
UoBegin ==
    /\ workload = "jetstream" /\ lc_pc = "update_output"
    /\ has_ui_dump_loc' = TRUE
    /\ score_read' = FALSE
    /\ uo_iterations' = 0
    /\ lc_pc' = "uo_loop"
    /\ UNCHANGED <<workload, is_rooted, cleanup_assets, failed_phase, td_exc,
                   fin_exc, serverVars, attempts, score_at, uo_slept, metrics,
                   metric_values, pollVars, auxVars>>

\* one pass of update_output's loop
UoAttempt ==
    /\ lc_pc = "uo_loop" /\ ~score_read
    /\ \E dump \in Snapshots :
        LET score == ReadScore(dump)
        IN  /\ attempts' = attempts + 1
            /\ IF ~IsNone(score)
                  THEN /\ metrics' = metrics + 1
                       /\ metric_values' = Append(metric_values, score)
                       /\ score_read' = TRUE
                       /\ score_at' = attempts + 1
                       /\ UNCHANGED <<uo_iterations, uo_slept, lc_pc, failed_phase>>
               ELSE IF RetriesExhausted(uo_iterations)
                  THEN /\ Raise("update_output")
                       /\ UNCHANGED <<metrics, metric_values, score_read,
                                      score_at, uo_iterations, uo_slept>>
               ELSE /\ uo_slept' = uo_slept + 1
                    /\ uo_iterations' = uo_iterations + 1
                    /\ UNCHANGED <<metrics, metric_values, score_read,
                                   score_at, lc_pc, failed_phase>>
    /\ UNCHANGED <<workload, is_rooted, cleanup_assets, td_exc, fin_exc,
                   has_ui_dump_loc, serverVars, pollVars, auxVars>>

\* update_output's while test fails: it returns
UoReturn ==
    /\ lc_pc = "uo_loop" /\ score_read
    /\ lc_pc' = "teardown"
    /\ UNCHANGED <<workload, is_rooted, cleanup_assets, failed_phase, td_exc,
                   fin_exc, has_ui_dump_loc, serverVars, scoreVars, pollVars, auxVars>>

\* Jetstream.teardown: am force-stop; what it raises ends teardown
JsTeardownStop ==
    /\ workload = "jetstream" /\ lc_pc = "teardown"
    /\ \E ok \in BOOLEAN :
        IF ok THEN lc_pc' = "teardown_rm" /\ UNCHANGED td_exc
        ELSE lc_pc' = "finalize" /\ td_exc' = "TargetError"
    /\ UNCHANGED <<workload, is_rooted, cleanup_assets, failed_phase, fin_exc,
                   has_ui_dump_loc, serverVars, scoreVars, pollVars, auxVars>>

\* Jetstream.teardown: rm of self.ui_dump_loc when cleanup_assets
JsTeardownRm ==
    /\ lc_pc = "teardown_rm"
    /\ \E ok \in BOOLEAN :
        td_exc' = IF ~cleanup_assets THEN "none"
                  ELSE IF ~has_ui_dump_loc THEN "AttributeError"
                  ELSE IF ok THEN "none" ELSE "TargetError"
    /\ lc_pc' = "finalize"
    /\ UNCHANGED <<workload, is_rooted, cleanup_assets, failed_phase, fin_exc,
                   has_ui_dump_loc, serverVars, scoreVars, pollVars, auxVars>>

\* adb reverse --remove tcp:<port> works only on a mapping that is there
UnmapCanWork(port) == port # NoPort /\ mapped_port = port

\* Jetstream.finalize -> ArchiveServer.stop: adb reverse --remove
StopUnmap ==
    /\ workload = "jetstream" /\ lc_pc = "finalize"
    /\ \E ok \in {TRUE, FALSE} :
        /\ ok => UnmapCanWork(srv_port)
        /\ IF ok THEN /\ mapped_port' = NoPort
                      /\ mapped_device' = NoPort
                      /\ lc_pc' = "stop_shutdown"
                      /\ UNCHANGED <<unmap_failed, fin_exc>>
           ELSE /\ unmap_failed' = TRUE
                /\ fin_exc' = "HostError"
                /\ lc_pc' = "done"
                /\ UNCHANGED <<mapped_port, mapped_device>>
    /\ UNCHANGED <<workload, is_rooted, cleanup_assets, failed_phase, td_exc,
                   has_ui_dump_loc, has_httpd, srv_port, bound_port, thread,
                   shutdown_request, joined, scoreVars, pollVars, auxVars>>

\* ArchiveServer.stop: self._httpd.shutdown() asks the loop to exit
StopShutdown ==
    /\ lc_pc = "stop_shutdown"
    /\ IF has_httpd
          THEN shutdown_request' = TRUE /\ lc_pc' = "stop_wait" /\ UNCHANGED fin_exc
          ELSE fin_exc' = "AttributeError" /\ lc_pc' = "done"
               /\ UNCHANGED shutdown_request
    /\ UNCHANGED <<workload, is_rooted, cleanup_assets, failed_phase, td_exc,
                   has_ui_dump_loc, has_httpd, srv_port, bound_port, thread,
                   joined, mapped_port, mapped_device, unmap_failed, scoreVars, pollVars, auxVars>>

\* ArchiveServerThread.run: serve_forever sees the request and returns
ServeExit ==
    /\ thread = "serving" /\ shutdown_request
    /\ thread' = "loop_exited"
    /\ UNCHANGED <<workload, is_rooted, cleanup_assets, lc_pc, failed_phase,
                   td_exc, fin_exc, has_ui_dump_loc, has_httpd, srv_port,
                   bound_port, shutdown_request, joined, mapped_port, mapped_device,
                   unmap_failed, scoreVars, pollVars, auxVars>>

\* ArchiveServerThread.run returns: the thread ends
ThreadExit ==
    /\ thread = "loop_exited"
    /\ thread' = "dead"
    /\ UNCHANGED <<workload, is_rooted, cleanup_assets, lc_pc, failed_phase,
                   td_exc, fin_exc, has_ui_dump_loc, has_httpd, srv_port,
                   bound_port, shutdown_request, joined, mapped_port, mapped_device,
                   unmap_failed, scoreVars, pollVars, auxVars>>

\* shutdown() returns once the loop has exited
StopShutdownReturn ==
    /\ lc_pc = "stop_wait"
    /\ thread \in {"loop_exited", "dead"}
    /\ lc_pc' = "stop_join"
    /\ UNCHANGED <<workload, is_rooted, cleanup_assets, failed_phase, td_exc,
                   fin_exc, has_ui_dump_loc, serverVars, scoreVars, pollVars, auxVars>>

\* ArchiveServer.stop: self._thread.join(); stop and finalize return
StopJoin ==
    /\ lc_pc = "stop_join"
    /\ thread = "dead"
    /\ joined' = TRUE
    /\ lc_pc' = "done"
    /\ UNCHANGED <<workload, is_rooted, cleanup_assets, failed_phase, td_exc,
                   fin_exc, has_ui_dump_loc, has_httpd, srv_port, bound_port,
                   thread, shutdown_request, mapped_port, mapped_device, unmap_failed,
                   scoreVars, pollVars, auxVars>>

\* Speedometer.setup: check_output('adb reverse tcp:8000 tcp:8000')
SpSetup ==
    /\ workload = "speedometer" /\ lc_pc = "setup"
    /\ \E ok \in BOOLEAN :
        IF ok THEN /\ mapped_port' = SpeedometerPort
                   /\ mapped_device' = SpeedometerPort
                   /\ lc_pc' = "run"
                   /\ UNCHANGED failed_phase
        ELSE Raise("setup") /\ UNCHANGED <<mapped_port, mapped_device>>
    /\ UNCHANGED <<workload, is_rooted, cleanup_assets, td_exc, fin_exc,
                   has_ui_dump_loc, has_httpd, srv_port, bound_port, thread,
                   shutdown_request, joined, unmap_failed, scoreVars, pollVars, auxVars>>

\* Speedometer.run: the launch and the wait, whose commands may fail
SpRun ==
    /\ workload = "speedometer" /\ lc_pc = "run"
    /\ \E ok \in BOOLEAN :
        IF ok THEN lc_pc' = "update_output" /\ UNCHANGED failed_phase
        ELSE Raise("run")
    /\ UNCHANGED <<workload, is_rooted, cleanup_assets, td_exc, fin_exc,
                   has_ui_dump_loc, serverVars, scoreVars, pollVars, auxVars>>

\* Speedometer.update_output: one dump, one search
SpUpdateOutput ==
    /\ workload = "speedometer" /\ lc_pc = "update_output"
    /\ \E dump \in Snapshots :
        LET result == RegexScore(dump, SpOpen, SpClose)
        IN  /\ attempts' = attempts + 1
            /\ IF ~IsNone(result)
                  THEN /\ metrics' = metrics + 1
                       /\ metric_values' = Append(metric_values, result)
                       /\ score_at' = attempts + 1
                       /\ lc_pc' = "teardown"
                       /\ UNCHANGED failed_phase
                  ELSE /\ Raise("update_output")
                       /\ UNCHANGED <<metrics, metric_values, score_at>>
    /\ UNCHANGED <<workload, is_rooted, cleanup_assets, td_exc, fin_exc,
                   has_ui_dump_loc, serverVars, uo_iterations, score_read,
                   uo_slept, pollVars, auxVars>>

\* Speedometer.teardown: check_output('adb reverse --remove tcp:8000')
SpTeardown ==
    /\ workload = "speedometer" /\ lc_pc = "teardown"
    /\ \E ok \in {TRUE, FALSE} :
        /\ ok => UnmapCanWork(SpeedometerPort)
        /\ IF ok THEN /\ mapped_port' = NoPort /\ mapped_device' = NoPort
                      /\ UNCHANGED <<unmap_failed, td_exc>>
           ELSE /\ unmap_failed' = TRUE
                /\ td_exc' = "CalledProcessError"
                /\ UNCHANGED <<mapped_port, mapped_device>>
    /\ lc_pc' = "finalize"
    /\ UNCHANGED <<workload, is_rooted, cleanup_assets, failed_phase, fin_exc,
                   has_ui_dump_loc, has_httpd, srv_port, bound_port, thread,
                   shutdown_request, joined, scoreVars, pollVars, auxVars>>

\* Speedometer has no finalize of its own
SpFinalize ==
    /\ workload = "speedometer" /\ lc_pc = "finalize"
    /\ lc_pc' = "done"
    /\ UNCHANGED <<workload, is_rooted, cleanup_assets, failed_phase, td_exc,
                   fin_exc, has_ui_dump_loc, serverVars, scoreVars, pollVars, auxVars>>

ServerStart == StartBind \/ StartThread \/ StartMap

ServerStop == StopUnmap \/ StopShutdown \/ StopShutdownReturn \/ StopJoin

ServerThread == ServeExit \/ ThreadExit

JetstreamStep ==
    \/ JsInitialize \/ JsSetup \/ JsRun \/ UoBegin \/ UoAttempt \/ UoReturn
    \/ JsTeardownStop \/ JsTeardownRm

SpeedometerStep == SpSetup \/ SpRun \/ SpUpdateOutput \/ SpTeardown \/ SpFinalize

LifeNext ==
    JetstreamStep \/ ServerStart \/ ServerStop \/ ServerThread \/ SpeedometerStep

LifeSpec == InitLife /\ [][LifeNext]_vars

\* ------------------------------------------------------------ Speedometer.run

\* "countdown = 5"
CountdownStart == 5

\* time.sleep(60)
InitialWait == 60

\* time.sleep(2)
SamplePeriod == 2

\* what 'adb shell top -n1 -m1 -q -b' may print: the busiest process first
TopOutputs ==
    {<<>>,
     <<"system_server", "\n">>,
     <<"com.android.chrome:", "sandboxed_process", "0", "\n">>,
     <<"system_server", "\n", "com.android.chrome:", "sandboxed_process", "0", "\n">>}

\* check_output(...).decode('utf-8').split("\n")[0]
BusiestLine(output) == Split(output, "\n")[1]

\* "sandboxed_process" in busiest_line
SandboxedBusy(line) == Contains(line, <<"sandboxed_process">>)

\* the latest CountdownStart samples
Latest(samples) ==
    IF Len(samples) <= CountdownStart THEN samples
    ELSE SubSeq(samples, Len(samples) - CountdownStart + 1, Len(samples))

\* the lifecycle while only Speedometer.run is looked at
LifeInSpRun ==
    /\ workload = "speedometer"
    /\ is_rooted = TRUE
    /\ cleanup_assets = TRUE
    /\ lc_pc = "run"
    /\ failed_phase = "none" /\ td_exc = "none" /\ fin_exc = "none"
    /\ has_ui_dump_loc = FALSE
    /\ has_httpd = FALSE /\ srv_port = NoPort /\ bound_port = NoPort
    /\ thread = "unstarted" /\ shutdown_request = FALSE /\ joined = FALSE
    /\ mapped_port = SpeedometerPort /\ mapped_device = SpeedometerPort
    /\ unmap_failed = FALSE
    /\ uo_iterations = 0 /\ score_read = FALSE /\ attempts = 0
    /\ score_at = 0 /\ uo_slept = 0 /\ metrics = 0 /\ metric_values = <<>>

InitTop ==
    /\ PollNotCalled
    /\ LifeInSpRun
    /\ sp_pc = "launch" /\ countdown = 0 /\ busiest_line = <<>>
    /\ waited = 0 /\ since_sample = 0 /\ recent = <<>> /\ busy_seen = FALSE
    /\ tp_pc = "idle" /\ document_root = <<>> /\ cwd = <<>>
    /\ request = <<>> /\ tp_result = <<>>

\* what a step of Speedometer.run leaves alone
TopFrame == UNCHANGED <<pollVars, lifeVars, pathVars>>

\* target.execute(url): the launch, which may fail
SpLaunch ==
    /\ sp_pc = "launch"
    /\ \E ok \in BOOLEAN : sp_pc' = IF ok THEN "wait" ELSE "raised"
    /\ UNCHANGED <<countdown, busiest_line, waited, since_sample, recent, busy_seen>>
    /\ TopFrame

\* time.sleep(60); countdown = 5
SpWait ==
    /\ sp_pc = "wait"
    /\ waited' = waited + InitialWait
    /\ countdown' = CountdownStart
    /\ sp_pc' = "outer_test"
    /\ UNCHANGED <<busiest_line, since_sample, recent, busy_seen>>
    /\ TopFrame

\* "while countdown > 0"
SpOuterTest ==
    /\ sp_pc = "outer_test"
    /\ sp_pc' = IF countdown > 0 THEN "outer_sample" ELSE "returned"
    /\ UNCHANGED <<countdown, busiest_line, waited, since_sample, recent, busy_seen>>
    /\ TopFrame

\* a sample: check_output runs top, which may fail; its first line is kept
Sample(next) ==
    \E ok \in BOOLEAN :
        IF ok
            THEN \E output \in TopOutputs :
                   /\ busiest_line' = BusiestLine(output)
                   /\ recent' = Latest(Append(recent,
                                    [busy |-> SandboxedBusy(busiest_line'),
                                     gap |-> since_sample]))
                   /\ busy_seen' = (busy_seen \/ SandboxedBusy(busiest_line'))
                   /\ since_sample' = 0
                   /\ sp_pc' = next
            ELSE /\ sp_pc' = "raised"
                 /\ UNCHANGED <<busiest_line, recent, since_sample, busy_seen>>

\* the sample that opens a pass of the outer loop
SpOuterSample ==
    /\ sp_pc = "outer_sample"
    /\ Sample("inner_test")
    /\ UNCHANGED <<countdown, waited>>
    /\ TopFrame

\* while "sandboxed_process" in busiest_line
SpInnerTest ==
    /\ sp_pc = "inner_test"
    /\ sp_pc' = IF SandboxedBusy(busiest_line) THEN "inner_body" ELSE "outer_sleep"
    /\ UNCHANGED <<countdown, busiest_line, waited, since_sample, recent, busy_seen>>
    /\ TopFrame

\* an inner loop that sleeps and leaves countdown as it is
SpInnerBodyNoReset ==
    /\ sp_pc = "inner_body"
    /\ since_sample' = since_sample + SamplePeriod
    /\ sp_pc' = "inner_sample"
    /\ UNCHANGED <<countdown, busiest_line, waited, recent, busy_seen>>
    /\ TopFrame

\* countdown = 5; time.sleep(2)
SpInnerBody ==
    /\ sp_pc = "inner_body"
    /\ countdown' = CountdownStart
    /\ since_sample' = since_sample + SamplePeriod
    /\ sp_pc' = "inner_sample"
    /\ UNCHANGED <<busiest_line, waited, recent, busy_seen>>
    /\ TopFrame

\* the sample that ends a pass of the inner loop
SpInnerSample ==
    /\ sp_pc = "inner_sample"
    /\ Sample("inner_test")
    /\ UNCHANGED <<countdown, waited>>
    /\ TopFrame

\* time.sleep(2); countdown -= 1
SpOuterSleep ==
    /\ sp_pc = "outer_sleep"
    /\ since_sample' = since_sample + SamplePeriod
    /\ countdown' = countdown - 1
    /\ sp_pc' = "outer_test"
    /\ UNCHANGED <<busiest_line, waited, recent, busy_seen>>
    /\ TopFrame

TopNext ==
    \/ SpLaunch \/ SpWait \/ SpOuterTest \/ SpOuterSample \/ SpInnerTest
    \/ SpInnerBody \/ SpInnerSample \/ SpOuterSleep

TopSpec == InitTop /\ [][TopNext]_vars

\* the call is scheduled until it ends
TopFairSpec == TopSpec /\ WF_vars(TopNext)

\* ------------------------------------------------------------ translate_path

\* the number of components a request path may have
MaxComponents == 2

\* file and directory names
Names == {"x", "y.html"}

\* what may stand between two slashes of a request: a name, nothing, ".",
\* "..", or ".." percent-encoded
RequestComponents == Names \cup {"", ".", "..", "%2E%2E"}

\* a component as text: the empty component is the empty string
Tok(c) == IF c = "" THEN <<>> ELSE <<c>>

\* "/".join(comps)
RECURSIVE JoinSlash(_)
JoinSlash(comps) ==
    IF comps = <<>> THEN <<>>
    ELSE IF Len(comps) = 1 THEN Tok(comps[1])
    ELSE Tok(comps[1]) \o <<"/">> \o JoinSlash(Tail(comps))

\* the request paths a client may send
Requests ==
    {<<"/">> \o JoinSlash(comps) \o trail \o query :
        comps \in UNION {[1..n -> RequestComponents] : n \in 0..MaxComponents},
        trail \in {<<>>, <<"/">>},
        query \in {<<>>, <<"?", "a=b">>}}

\* the absolute directories the process may work in, and the roots served
Cwds == {<<"/">>, <<"/", "home">>, <<"/", "home", "/", "x">>, <<"/", "tmp", "/", "abc">>}
DocumentRoots == {<<"/", "tmp", "/", "abc">>, <<"/", "srv">>}

\* s.split("/"), each field as a string
SplitSlash(s) ==
    LET fields == Split(s, "/")
    IN  [i \in 1..Len(fields) |-> FieldPath(fields[i])]

\* urllib.parse.unquote on a component
Unquote(c) == IF c = "%2E%2E" THEN ".." ELSE c

\* posixpath.normpath's loop over the components
RECURSIVE NormComps(_, _, _)
NormComps(comps, initial, acc) ==
    IF comps = <<>> THEN acc
    ELSE LET c == Head(comps)
         IN  IF c \in {"", "."} THEN NormComps(Tail(comps), initial, acc)
             ELSE IF \/ c # ".."
                     \/ (~initial /\ acc = <<>>)
                     \/ (acc # <<>> /\ acc[Len(acc)] = "..")
                 THEN NormComps(Tail(comps), initial, Append(acc, c))
             ELSE IF acc # <<>>
                 THEN NormComps(Tail(comps), initial, SubSeq(acc, 1, Len(acc) - 1))
             ELSE NormComps(Tail(comps), initial, acc)

\* posixpath.normpath
NormPath(s) ==
    LET initial == s # <<>> /\ s[1] = "/"
        comps == NormComps(SplitSlash(s), initial, <<>>)
        body == (IF initial THEN <<"/">> ELSE <<>>) \o JoinSlash(comps)
    IN  IF body = <<>> THEN <<".">> ELSE body

\* os.path.join(a, b)
PathJoin(a, b) ==
    IF b # <<>> /\ b[1] = "/" THEN b
    ELSE IF a = <<>> \/ a[Len(a)] = "/" THEN a \o b
    ELSE a \o <<"/">> \o b

\* the fields of s that are not empty
Words(s) == SelectSeq(SplitSlash(s), LAMBDA w : w # "")

\* the loop of SimpleHTTPRequestHandler.translate_path over the words
RECURSIVE JoinWords(_, _)
JoinWords(path, words) ==
    IF words = <<>> THEN path
    ELSE IF Head(words) \in {".", ".."} THEN JoinWords(path, Tail(words))
    ELSE JoinWords(PathJoin(path, <<Head(words)>>), Tail(words))

\* SimpleHTTPRequestHandler.translate_path: the path under the directory
\* the process works in
BaseTranslatePath(directory, path) ==
    LET noquery == Split(path, "?")[1]
        trailing == noquery # <<>> /\ noquery[Len(noquery)] = "/"
        unquoted == [i \in 1..Len(noquery) |-> Unquote(noquery[i])]
        normed == NormPath(unquoted)
        under == JoinWords(directory, Words(normed))
    IN  IF trailing THEN under \o <<"/">> ELSE under

\* the length of the common prefix of two lists of components
RECURSIVE CommonPrefix(_, _)
CommonPrefix(a, b) ==
    IF a = <<>> \/ b = <<>> \/ Head(a) # Head(b) THEN 0
    ELSE 1 + CommonPrefix(Tail(a), Tail(b))

\* os.path.relpath(path, start), both absolute
RelPath(path, start) ==
    LET start_list == Words(NormPath(start))
        path_list == Words(NormPath(path))
        i == CommonPrefix(start_list, path_list)
        rel_list == [k \in 1..(Len(start_list) - i) |-> ".."]
                    \o SubSeq(path_list, i + 1, Len(path_list))
    IN  IF rel_list = <<>> THEN <<".">> ELSE JoinSlash(rel_list)

\* a translate_path that leaves the path where the base class put it
TranslateUnderCwd(root, directory, path) == BaseTranslatePath(directory, path)

\* DifferentDirectoryHTTPRequestHandler.translate_path
TranslatePath(root, directory, path) ==
    LET translated == BaseTranslatePath(directory, path)
        requested_uri == RelPath(translated, directory)
    IN  PathJoin(root, requested_uri)

\* the other parts of the program while only translate_path is looked at
InitPath ==
    /\ PollNotCalled
    /\ LifeInRun
    /\ sp_pc = "not_called" /\ countdown = 0 /\ busiest_line = <<>>
    /\ waited = 0 /\ since_sample = 0 /\ recent = <<>> /\ busy_seen = FALSE
    /\ tp_pc = "idle"
    /\ document_root \in DocumentRoots
    /\ cwd \in Cwds
    /\ request = <<>>
    /\ tp_result = <<>>

\* a GET arrives: the handler is given the path of the request
HandleRequest ==
    /\ tp_pc \in {"idle", "returned"}
    /\ request' \in Requests
    /\ tp_pc' = "called"
    /\ tp_result' = <<>>
    /\ UNCHANGED <<document_root, cwd>>
    /\ UNCHANGED <<pollVars, lifeVars, topVars>>

\* the handler translates the path
DoTranslatePath ==
    /\ tp_pc = "called"
    /\ tp_result' = TranslatePath(document_root, cwd, request)
    /\ tp_pc' = "returned"
    /\ UNCHANGED <<document_root, cwd, request>>
    /\ UNCHANGED <<pollVars, lifeVars, topVars>>

PathNext == HandleRequest \/ DoTranslatePath

PathSpec == InitPath /\ [][PathNext]_vars

\* ------------------------------------------------------------ claims

\* C1: wait_for_benchmark_to_complete terminates for every behaviour of the
\* device: it runs at most TimeoutIterations + 1 = 181 iterations and sleeps
\* at most timeout_period + sleep_period in total, it takes at most three
\* steps per iteration, it ends only by returning or by one of the two
\* WorkloadErrors, and until it has ended it can always take its next step
\* (at the while test with benchmark_complete false that step is PollBody,
\* whose only guard is that state).
C1_Terminates ==
    /\ iterations <= TimeoutIterations + 1
    /\ slept * sleep_period_s <= timeout_period_m * 60 + sleep_period_s
    /\ poll_steps <= 3 * (TimeoutIterations + 1)
    /\ pc \in {"loop", "check", "sleep", "returned"} \cup PollRaised
    /\ (pc = "check" => ENABLED TimeoutCheck)
    /\ (pc = "sleep" => ENABLED Sleep)
    /\ (pc = "loop" /\ benchmark_complete => ENABLED PollReturn)

\* the call used its whole budget: 181 iterations, then the timeout
C1_Witness == pc = "raised_timeout" /\ iterations = TimeoutIterations + 1 /\ slept > 0

\* C2: on a timeout, the "Local Storage wasn't found" error is raised if and
\* only if file_exists returned false in every iteration of the call; the
\* plain "did not complete within 15 minutes" error is raised otherwise.
C2_TimeoutVariant ==
    /\ pc = "raised_not_found" => ~ever_existed
    /\ pc = "raised_timeout" => ever_existed

\* a timeout after the location was observed and then went away again
C2_Witness == pc = "raised_timeout" /\ ever_existed /\ ~dir_exists

\* C3: once a *.log file holds the run identifier and keeps holding it under
\* an existing location, benchmark_complete is set within FindEvery + 1 = 7
\* further iterations, and the call does not end in a timeout error.
C3_CompletesInTime ==
    /\ \A f \in DOMAIN marker_age :
          marker_age[f] > FindEvery + 1 => benchmark_complete
    /\ pc \in PollRaised => \A f \in DOMAIN marker_age : marker_age[f] = 0

\* C4: a candidate file that holds another run's identifier and not this
\* run's never completes this run's poll: when benchmark_complete is set,
\* the grep that set it ran over a candidate file holding this run's
\* identifier.
C4_NoCrossMatch ==
    (pc = "check" /\ benchmark_complete) =>
        /\ Len(last_outputs) >= 1
        /\ HasId(log_files, candidate_files[Len(last_outputs)], report_end_id)

\* the poll completed in an iteration that first scanned a file holding only
\* another run's identifier
C4_Witness ==
    /\ pc = "check" /\ benchmark_complete
    /\ Len(last_outputs) >= 2
    /\ \E r \in RunIds \ {report_end_id} : HasId(log_files, candidate_files[1], r)
    /\ ~HasId(log_files, candidate_files[1], report_end_id)

\* C5: benchmark_complete is set in exactly those iterations in which a
\* scanned candidate file holds the run identifier.
C5_CompleteWhenScanned ==
    pc = "check" =>
        (benchmark_complete <=>
            \E i \in 1..Len(last_outputs) :
                HasId(log_files, candidate_files[i], report_end_id))

\* a match as grep reports it for a file: the matching text, or the
\* binary-match line for that file's path
ReportsMatch(output, path, id) ==
    Contains(output, <<id>>) \/ Contains(output, <<"Binary file ", path, " matches">>)

\* C6: a match reported for a candidate in either form sets
\* benchmark_complete and ends the scan at that candidate.
C6_BothForms ==
    pc = "check" =>
        \A i \in 1..Len(last_outputs) :
            ReportsMatch(last_outputs[i], candidate_files[i], report_end_id) =>
                benchmark_complete /\ i = Len(last_outputs)

\* the lifecycle has ended: finalize has returned or raised
LifeDone == lc_pc = "done"

\* C7: when ArchiveServer.stop returns, the serving loop has exited, the
\* thread has been joined and the socket bound by start has been released.
C7_Quiesced ==
    (workload = "jetstream" /\ LifeDone /\ fin_exc = "none") =>
        /\ thread = "dead"
        /\ joined
        /\ bound_port = NoPort

\* C8: a failing unmap command is swallowed: ArchiveServer.stop still shuts
\* the server down and joins its thread, and Speedometer.teardown does not
\* raise.
C8_UnmapBestEffort ==
    (LifeDone /\ unmap_failed) =>
        /\ workload = "jetstream" =>
              fin_exc = "none" /\ (has_httpd => shutdown_request /\ joined)
        /\ workload = "speedometer" => td_exc = "none"

\* C9: after a phase before teardown has raised, teardown and finalize
\* complete without an exception, and the server a failed initialize left
\* running is shut down.
C9_TeardownSafe ==
    (workload = "jetstream" /\ LifeDone /\ failed_phase # "none") =>
        /\ td_exc = "none"
        /\ fin_exc = "none"
        /\ thread \in {"unstarted", "dead"}

\* C10 as stated: update_output calls read_score at most 10 times and raises
\* after the 10th call that returned None.
C10_TenAttempts ==
    workload = "jetstream" =>
        /\ attempts <= RetryLimit
        /\ failed_phase = "update_output" => attempts = RetryLimit

\* C10 as amended: update_output calls read_score at most 11 times (a first
\* attempt and at most 10 retries, each after one sleep of 2 s); it raises
\* after the 11th call that returned None, without a 12th; once an attempt
\* returns a score it adds the metric and makes no further attempt.
C10_ElevenAttempts ==
    workload = "jetstream" =>
        /\ attempts <= RetryLimit + 1
        /\ uo_slept <= RetryLimit /\ uo_slept = uo_iterations
        /\ uo_slept * RetryDelay <= RetryLimit * RetryDelay
        /\ attempts <= uo_slept + 1
        /\ failed_phase = "update_output" =>
              attempts = RetryLimit + 1 /\ score_at = 0 /\ metrics = 0
        /\ score_at # 0 => attempts = score_at /\ score_read /\ metrics = 1

\* eleven attempts returned None and update_output raised
C10_Witness ==
    /\ workload = "jetstream"
    /\ failed_phase = "update_output"
    /\ attempts = RetryLimit + 1

\* update_output has returned normally: the lifecycle is past it and no
\* phase has raised
UoReturned ==
    /\ failed_phase = "none"
    /\ lc_pc \in {"teardown", "teardown_rm", "finalize", "stop_shutdown",
                  "stop_wait", "stop_join", "done"}

\* C11: no partial or degraded metric is reported: an invocation of
\* update_output that returns has called add_metric exactly once, with a
\* score the regex parsed; an invocation that raises has not called it; and
\* it is not called in a run whose earlier phase (the completion poller's
\* timeout in run, setup, initialize) raised.
C11_NoPartialMetric ==
    /\ metrics = Len(metric_values)
    /\ metrics <= 1
    /\ \A i \in 1..Len(metric_values) :
          Len(metric_values[i]) = 1 /\ metric_values[i][1] \in Decimals
    /\ failed_phase = "update_output" => metrics = 0 /\ attempts >= 1
    /\ failed_phase \in {"initialize", "setup", "run"} =>
          metrics = 0 /\ attempts = 0
    /\ UoReturned => metrics = 1
    /\ (metrics = 1 /\ lc_pc = "uo_loop") => score_read

\* JetStream's update_output returned after a retry, with its one metric
C11_Witness ==
    /\ workload = "jetstream" /\ UoReturned /\ lc_pc = "done"
    /\ attempts > 1 /\ metrics = 1

\* C12: in both workloads a snapshot without the score is absorbed by the
\* retry loop: update_output raises only once the retry budget is used up
\* (RetryLimit attempts or more have returned no score), never on a single
\* attempt that found none.
C12_TransientAbsorbed ==
    failed_phase = "update_output" => attempts >= RetryLimit /\ score_at = 0

\* Speedometer.run has ended: it returned or an exception left it
TopEnded == sp_pc \in {"returned", "raised"}

\* C13: the completion wait of Speedometer.run ends, for every sequence of
\* results of the top command, when the loop is scheduled fairly: it
\* returns or leaves with a failure.
C13_WaitEnds == <>TopEnded

\* the number of samples at the end of the record in which
\* sandboxed_process was not the busiest
RECURSIVE TrailingQuiet(_)
TrailingQuiet(samples) ==
    IF samples = <<>> \/ samples[Len(samples)].busy THEN 0
    ELSE 1 + TrailingQuiet(SubSeq(samples, 1, Len(samples) - 1))

\* C18: Speedometer.run returns only after the wait of 60 s and then 5
\* consecutive samples, 2 s apart, in none of which sandboxed_process is the
\* busiest, the last of them 2 s before the return; a busy sample sets the
\* countdown back to 5, so that at every test of the outer loop the
\* countdown is 5 less the number of quiet samples since the last busy one.
C18_QuietBeforeReturn ==
    /\ sp_pc = "returned" =>
          /\ waited = InitialWait
          /\ countdown = 0
          /\ Len(recent) = CountdownStart
          /\ \A i \in 1..Len(recent) : ~recent[i].busy
          /\ \A i \in 2..Len(recent) : recent[i].gap = SamplePeriod
          /\ since_sample = SamplePeriod
    /\ sp_pc = "inner_sample" => countdown = CountdownStart
    /\ sp_pc = "outer_test" => countdown = CountdownStart - TrailingQuiet(recent)

\* the call returned although an earlier sample had found the process busy
C18_Witness ==
    /\ sp_pc = "returned"
    /\ busy_seen

\* the components of a request path: what stands between its slashes,
\* percent-decoded, without the query
Components(path) ==
    LET fields == Words(Split(path, "?")[1])
    IN  [i \in 1..Len(fields) |-> Unquote(fields[i])]

\* C14 as stated: translate_path returns the file that document_root joined
\* with the components of the request path names, for every request path
\* and every working directory.
C14_RebasedOnRoot ==
    tp_pc = "returned" =>
        NormPath(tp_result)
            = NormPath(PathJoin(document_root, JoinSlash(Components(request))))

\* the components left of a rooted path once "." is dropped and each ".."
\* has taken away the component before it (or nothing, at the top), found
\* from the right: skip counts the ".." still to be used up
RECURSIVE ResolveFromRight(_, _)
ResolveFromRight(comps, skip) ==
    IF comps = <<>> THEN <<>>
    ELSE LET last == comps[Len(comps)]
             front == SubSeq(comps, 1, Len(comps) - 1)
         IN  IF last = "." THEN ResolveFromRight(front, skip)
             ELSE IF last = ".." THEN ResolveFromRight(front, skip + 1)
             ELSE IF skip > 0 THEN ResolveFromRight(front, skip - 1)
             ELSE Append(ResolveFromRight(front, 0), last)

\* C14 as amended: translate_path returns document_root joined with the
\* components of the request path after "." and ".." have been resolved
\* inside the path ("." when none is left); the result lies under
\* document_root, holds no "..", is the same for every working directory,
\* and for a path of one or more plain names is document_root joined with
\* those names.
C14_RebasedResolved ==
    tp_pc = "returned" =>
        LET resolved == ResolveFromRight(Components(request), 0)
            prefix == IF document_root[Len(document_root)] = "/"
                         THEN document_root ELSE document_root \o <<"/">>
        IN  /\ tp_result = prefix \o (IF resolved = <<>> THEN <<".">>
                                       ELSE JoinSlash(resolved))
            /\ \A i \in 1..Len(tp_result) : tp_result[i] # ".."
            /\ \A c \in Cwds : TranslatePath(document_root, c, request) = tp_result
            /\ (/\ Components(request) # <<>>
                /\ \A i \in 1..Len(Components(request)) :
                      Components(request)[i] \in Names)
                  => tp_result = prefix \o JoinSlash(Components(request))

\* a request that climbs with ".." was translated while the process worked
\* in another directory than the root
C14_Witness ==
    /\ tp_pc = "returned"
    /\ cwd # document_root
    /\ \E i \in 1..Len(request) : request[i] = ".."
    /\ \E i \in 1..Len(tp_result) : tp_result[i] \in Names

\* a pass of the while body is taken
BodyStep == pc = "loop" /\ pc' # "loop"

\* C15: in an iteration the find runs if and only if the location exists
\* and either it was not seen in an earlier iteration or the iteration
\* counter is a multiple of FindEvery = 6; in every other iteration
\* candidate_files is left as it was.
C15_FindWhenDue ==
    [][BodyStep /\ ~benchmark_complete =>
          /\ FindEvery = 6
          /\ find_ran' <=>
                (dir_exists /\ (~ever_existed \/ iterations % FindEvery = 0))
          /\ ~find_ran' => candidate_files' = candidate_files
          /\ find_ran' => candidate_files' = Candidates(log_files)]_vars

\* the find ran off the period, in the iteration that first saw the location
C15_Witness ==
    /\ pc = "check"
    /\ find_ran
    /\ (iterations - 1) % FindEvery # 0
    /\ candidate_files # <<>>

\* C16: the call sleeps only at the end of an iteration that is neither
\* complete nor timed out: no sleep is taken once benchmark_complete is set,
\* and none after a timeout.
C16_SleepOnlyWhenPending ==
    [][slept' # slept =>
          /\ ~benchmark_complete
          /\ ~TimedOut(iterations)
          /\ pc \notin PollRaised]_vars

\* C17: benchmark_complete is terminal and successful: a timeout error is
\* raised only while benchmark_complete is false, in every iteration
\* including the last of the budget.
C17_CompleteIsSuccess == pc \in PollRaised => ~benchmark_complete

\* C20: the scan never reads candidate_files before an enumeration has
\* assigned it, however the location appears, disappears and reappears;
\* and local_storage_seen, once true, stays true.
C20_CandidatesBound ==
    /\ pc # "raised_unbound"
    /\ local_storage_seen => candidate_bound
    /\ last_outputs # <<>> => candidate_bound
    /\ ever_existed => local_storage_seen

\* off the period, the scan ran over the set an earlier iteration enumerated
C20_Witness ==
    /\ pc = "check"
    /\ dir_exists /\ ~find_ran
    /\ (iterations - 1) % FindEvery # 0
    /\ Len(last_outputs) >= 2

\* C19: whenever ArchiveServer's adb reverse mapping is in place, it maps
\* the port get_port() returns on both sides, the server's socket is bound
\* to that port, and the serving thread has been started and has not been
\* asked to shut down; before start reaches its adb command there is no
\* mapping.
C19_MappingWhileServing ==
    workload = "jetstream" =>
        /\ (mapped_device = NoPort) <=> (mapped_port = NoPort)
        /\ mapped_device # NoPort =>
              /\ mapped_device = mapped_port
              /\ mapped_port = srv_port
              /\ bound_port = srv_port
              /\ thread = "serving"
              /\ ~shutdown_request
        /\ lc_pc \in {"initialize", "start_bind", "start_thread", "start_map"} =>
              mapped_device = NoPort
        /\ lc_pc \in {"stop_shutdown", "stop_wait", "stop_join"} =>
              mapped_device = NoPort

\* stop has removed the mapping and the server is still serving
C19_Witness ==
    /\ workload = "jetstream"
    /\ lc_pc = "stop_shutdown"
    /\ mapped_device = NoPort
    /\ thread = "serving" /\ bound_port = srv_port /\ srv_port # NoPort

====
